---- MODULE Spec2Model ----
(***************************************************************************)
(* Model of the windows-named-pipe crate (src/src/lib.rs): Handle,         *)
(* PipeStream and PipeListener over the platform's named-pipe calls.       *)
(*                                                                         *)
(* The platform is modelled by the operators prefixed with the name of the *)
(* call (CreateNamedPipeW, CreateFileW, ConnectNamedPipe, ReadFile,        *)
(* WriteFile, FlushFileBuffers, DisconnectNamedPipe, CloseHandle), each    *)
(* with the behaviour the platform documents for a blocking byte-mode      *)
(* pipe.  A blocking call is an action that is enabled only once the call  *)
(* can return.                                                             *)
(***************************************************************************)
EXTENDS Integers, Sequences, FiniteSets, TLC

\* ---- bounds ----
MaxInst == 3
MaxStreams == 4
MaxBytes == 2
MaxRead == 2
\* bounds of the specification that moves data
MaxInstIO == 2
MaxStreamsIO == 3
\* bound of the two-thread exchange: the length of a message
MaxMsg == 2
\* bound of the iteration: the number of next() calls on one Incoming
MaxAdvances == 3

Bytes == {0, 1}

\* the paths tried, as wide characters with 0 for NUL: a name, another name,
\* and the first name followed by an embedded NUL
PathSet == {<<1>>, <<2>>, <<1, 0, 2>>}
BufSet == UNION {[1..n -> Bytes] : n \in 1..MaxBytes}

VARIABLES
  inst,      \* platform: the pipe instances, by identifier 1..nInst
  nInst,     \* platform: number of instances created so far
  lst,       \* the PipeListener value and the position of its accept call
  streams,   \* the PipeStream values, by identifier 1..nStreams
  nStreams,  \* number of PipeStream values constructed so far
  raw,       \* raw handle values the program holds (as_raw_handle, into_raw_handle)
  written,   \* total number of bytes written (bounds the data)
  last,      \* the last step taken: the operation, its inputs, and the result and
             \* platform calls of an operation that returned
  it         \* the Incoming iterator over the listener: the position of its next()
             \* call, the accept calls it has made and the items it has yielded

vars == <<inst, nInst, lst, streams, nStreams, raw, written, last, it>>

\* ---- handles ----
\* A HANDLE value names one end of one instance.
H(i, side) == [inst |-> i, side |-> side]
NoHandle == H(0, "none")

NoInst == [name |-> <<>>, srv |-> "none", cli |-> "none", conn |-> "listening",
           c2s |-> <<>>, s2c |-> <<>>, srvCloses |-> 0, cliCloses |-> 0]

\* origin is the constructor that built the stream; eof is set once a read of
\* the stream has returned Ok(0)
NoStream == [status |-> "none", handle |-> NoHandle, server_half |-> FALSE,
             sent |-> <<>>, rcvd |-> <<>>, origin |-> "none", eof |-> FALSE]

NoLast == [op |-> "none", path |-> <<>>, ok |-> TRUE, code |-> "", stream |-> 0,
           handle |-> NoHandle, n |-> 0, calls |-> <<>>]

NoIt == [pc |-> "idle", advances |-> 0, accepts |-> 0, results |-> <<>>, items |-> <<>>]

\* ---- path encoding ----
HasNul(s) == \E i \in 1..Len(s) : s[i] = 0

\* to_u16s: reject embedded NULs, else append the terminator
to_u16s(s) == IF HasNul(s) THEN [ok |-> FALSE, w |-> <<>>]
              ELSE [ok |-> TRUE, w |-> Append(s, 0)]

\* faulty variant of encode_wide_nul: the terminator goes in front of the path
encode_wide_nul_front(s) == <<0>> \o s

\* PipeStream::create_pipe's encoding: push "\x00" and encode, no check
encode_wide_nul(s) == Append(s, 0)

\* what the platform reads from an LPCWSTR: the characters before the first NUL
RECURSIVE CStr(_)
CStr(w) == IF w = <<>> \/ Head(w) = 0 THEN <<>> ELSE <<Head(w)>> \o CStr(Tail(w))

\* ---- platform calls ----
NameInUse(I, name) == \E i \in 1..MaxInst : I[i].srv = "open" /\ I[i].name = name

\* CreateNamedPipeW: a new instance in the listening state; with
\* FILE_FLAG_FIRST_PIPE_INSTANCE it fails when the name already has an instance
CreateNamedPipeWCode(I, name, first) ==
  IF name = <<>> THEN "ERROR_INVALID_NAME"
  ELSE IF first /\ NameInUse(I, name) THEN "ERROR_ACCESS_DENIED"
  ELSE "OK"

CreateNamedPipeW(I, j, name) ==
  [I EXCEPT ![j] = [NoInst EXCEPT !.name = name, !.srv = "open"]]

\* CreateFileW(OPEN_EXISTING) on a pipe name: attaches to an instance that is listening
Listening(I, name) ==
  {i \in 1..MaxInst : I[i].srv = "open" /\ I[i].name = name /\ I[i].conn = "listening"
                       /\ I[i].cli = "none"}

\* the instance a client is attached to: the platform keeps the instances of a
\* name in creation order and takes the first that is listening
FirstListening(I, name) ==
  {i \in Listening(I, name) : \A j \in Listening(I, name) : i <= j}

CreateFileWCode(I, name) ==
  IF Listening(I, name) # {} THEN "OK"
  ELSE IF NameInUse(I, name) THEN "ERROR_PIPE_BUSY"
  ELSE "ERROR_FILE_NOT_FOUND"

CreateFileW(I, i) == [I EXCEPT ![i].cli = "open", ![i].conn = "connected"]

\* ConnectNamedPipe on a server handle; pending is TRUE when the call was
\* issued while the instance was listening and is now completing
ConnectNamedPipe(I, i, pending) ==
  IF I[i].conn = "listening" THEN "PENDING"
  ELSE IF pending THEN "OK"
  ELSE IF I[i].conn = "connected" /\ I[i].cli = "open" THEN "ERROR_PIPE_CONNECTED"
  ELSE IF I[i].conn = "connected" THEN "ERROR_NO_DATA"
  ELSE "ERROR_PIPE_NOT_CONNECTED"

\* CloseHandle: the end is closed; data written to a closed end is dropped
CloseHandle(I, h) ==
  IF h.side = "srv"
  THEN [I EXCEPT ![h.inst].srv = "closed", ![h.inst].c2s = <<>>,
                 ![h.inst].srvCloses = @ + 1]
  ELSE [I EXCEPT ![h.inst].cli = "closed", ![h.inst].s2c = <<>>,
                 ![h.inst].cliCloses = @ + 1]

IsOpen(I, h) == IF h.side = "srv" THEN I[h.inst].srv = "open" ELSE I[h.inst].cli = "open"

\* DisconnectNamedPipe: the server end is disconnected, unread data discarded;
\* on a handle that is not an open server end the call fails and does nothing
DisconnectNamedPipe(I, h) ==
  IF ~(h.side = "srv" /\ IsOpen(I, h)) THEN I
  ELSE [I EXCEPT ![h.inst].conn = "disconnected", ![h.inst].c2s = <<>>,
                 ![h.inst].s2c = <<>>]
Closes(I, h) == IF h.side = "srv" THEN I[h.inst].srvCloses ELSE I[h.inst].cliCloses

\* the peer end of h is attached and open
PeerUp(I, h) ==
  /\ I[h.inst].conn = "connected"
  /\ IF h.side = "srv" THEN I[h.inst].cli = "open" ELSE I[h.inst].srv = "open"

Inbound(I, h) == IF h.side = "srv" THEN I[h.inst].c2s ELSE I[h.inst].s2c
Outbound(I, h) == IF h.side = "srv" THEN I[h.inst].s2c ELSE I[h.inst].c2s

\* FlushFileBuffers returns once the peer has read what this end wrote, or
\* fails at once when there is no peer or the handle is closed
FlushReturns(I, h) == ~IsOpen(I, h) \/ Outbound(I, h) = <<>> \/ ~PeerUp(I, h)

\* ---- Handle ----
\* faulty variant of HandleDrop: the handle is forgotten, not closed
HandleDropLeak(I, h) == I

\* Drop for Handle: CloseHandle(self.inner)
HandleDrop(I, h) == CloseHandle(I, h)

\* ---- PipeListener ----
\* faulty variant of connect_pipe_ok: only a completed wait counts as success
connect_pipe_ok_strict(code) == code = "OK"

\* connect_pipe: the result of ConnectNamedPipe mapped to Ok / Err
connect_pipe_ok(code) == code \in {"OK", "ERROR_PIPE_CONNECTED"}

Init ==
  /\ inst = [i \in 1..MaxInst |-> NoInst]
  /\ nInst = 0
  /\ lst = [pc |-> "none", path |-> <<>>, next_pipe |-> NoHandle, handle |-> NoHandle,
            first |-> NoHandle, accepted |-> FALSE, calls |-> <<>>]
  /\ streams = [s \in 1..MaxStreams |-> NoStream]
  /\ nStreams = 0
  /\ raw = {}
  /\ written = 0
  /\ last = NoLast
  /\ it = NoIt

\* PipeListener::bind(path)
Bind(p) ==
  /\ lst.pc = "none"
  /\ LET enc == to_u16s(p)
         name == CStr(enc.w)
         code == CreateNamedPipeWCode(inst, name, TRUE)
     IN IF ~enc.ok
        THEN /\ last' = [NoLast EXCEPT !.op = "bind", !.path = p, !.ok = FALSE,
                                       !.code = "InvalidInput"]
             /\ UNCHANGED <<inst, nInst, lst>>
        ELSE IF code # "OK"
        THEN /\ last' = [NoLast EXCEPT !.op = "bind", !.path = p, !.ok = FALSE,
                                       !.code = code, !.calls = <<"CreateNamedPipeW">>]
             /\ UNCHANGED <<inst, nInst, lst>>
        ELSE /\ nInst < MaxInst
             /\ nInst' = nInst + 1
             /\ inst' = CreateNamedPipeW(inst, nInst + 1, name)
             /\ lst' = [pc |-> "ready", path |-> enc.w, next_pipe |-> H(nInst + 1, "srv"),
                        handle |-> NoHandle, first |-> H(nInst + 1, "srv"),
                        accepted |-> FALSE, calls |-> <<>>]
             /\ last' = [NoLast EXCEPT !.op = "bind", !.path = p,
                                       !.handle = H(nInst + 1, "srv"),
                                       !.calls = <<"CreateNamedPipeW">>]
  /\ UNCHANGED <<streams, nStreams, raw, written>>

\* Drop of a PipeListener: its next_pipe Handle is dropped
ListenerDrop ==
  /\ lst.pc = "ready"
  /\ inst' = HandleDrop(inst, lst.next_pipe)
  /\ lst' = [lst EXCEPT !.pc = "dropped", !.next_pipe = NoHandle]
  /\ last' = [NoLast EXCEPT !.op = "listener_drop", !.handle = lst.next_pipe,
                            !.calls = <<"CloseHandle">>]
  /\ UNCHANGED <<nInst, streams, nStreams, raw, written>>

\* faulty variant of AcceptSwap: the new instance is not installed, next_pipe stays
AcceptSwapAlias(l, new) ==
  [l EXCEPT !.pc = "swapped", !.handle = l.next_pipe,
            !.accepted = TRUE, !.calls = <<"CreateNamedPipeW">>]

\* faulty variant of AcceptSwap: the new instance is waited on, the old one stays next_pipe
AcceptSwapNew(l, new) ==
  [l EXCEPT !.pc = "swapped", !.handle = new,
            !.accepted = TRUE, !.calls = <<"CreateNamedPipeW">>]

\* mem::replace(&mut self.next_pipe, new): the old next_pipe becomes the local
\* `handle`, the new instance becomes next_pipe
AcceptSwap(l, new) ==
  [l EXCEPT !.pc = "swapped", !.handle = l.next_pipe, !.next_pipe = new,
            !.accepted = TRUE, !.calls = <<"CreateNamedPipeW">>]

\* faulty variant of AcceptCreateFailed: next_pipe is taken out before the
\* creation is known to have succeeded, and is lost when it fails
AcceptCreateFailedTaken(l) == [l EXCEPT !.accepted = TRUE, !.next_pipe = NoHandle]

\* create_pipe(..)? fails: the arguments of mem::replace are evaluated before
\* the call, so the `?` returns before next_pipe is touched
AcceptCreateFailed(l) == [l EXCEPT !.accepted = TRUE]

\* PipeListener::accept, first statement: create the replacement instance and
\* swap it in; `?` returns early when the creation fails
AcceptBegin(envFail) ==
  /\ lst.pc = "ready"
  /\ LET name == CStr(lst.path)
         code == IF envFail THEN "ERROR_NO_SYSTEM_RESOURCES"
                 ELSE CreateNamedPipeWCode(inst, name, FALSE)
     IN IF code # "OK"
        THEN /\ lst' = AcceptCreateFailed(lst)
             /\ last' = [NoLast EXCEPT !.op = "accept", !.ok = FALSE, !.code = code,
                                       !.handle = lst.next_pipe,
                                       !.calls = <<"CreateNamedPipeW">>]
             /\ UNCHANGED <<inst, nInst>>
        ELSE /\ nInst < MaxInst
             /\ nInst' = nInst + 1
             /\ inst' = CreateNamedPipeW(inst, nInst + 1, name)
             /\ lst' = AcceptSwap(lst, H(nInst + 1, "srv"))
             /\ last' = [NoLast EXCEPT !.op = "accept_swap", !.handle = lst.next_pipe]
  /\ UNCHANGED <<streams, nStreams, raw, written>>

\* PipeListener::accept after connect_pipe has returned with the platform's
\* code: Ok builds the server-side stream, Err drops the local `handle`
AcceptReturn(code) ==
  LET calls == Append(lst.calls, "ConnectNamedPipe")
  IN IF connect_pipe_ok(code)
     THEN /\ nStreams < MaxStreams
          /\ nStreams' = nStreams + 1
          /\ streams' = [streams EXCEPT ![nStreams + 1] =
                           [NoStream EXCEPT !.status = "live", !.handle = lst.handle,
                                            !.server_half = TRUE, !.origin = "accept"]]
          /\ lst' = [lst EXCEPT !.pc = "ready", !.handle = NoHandle, !.calls = <<>>]
          /\ last' = [NoLast EXCEPT !.op = "accept", !.code = code,
                                    !.stream = nStreams + 1, !.handle = lst.handle,
                                    !.calls = calls]
          /\ UNCHANGED <<inst, nInst, raw, written>>
     ELSE /\ inst' = HandleDrop(inst, lst.handle)
          /\ lst' = [lst EXCEPT !.pc = "ready", !.handle = NoHandle, !.calls = <<>>]
          /\ last' = [NoLast EXCEPT !.op = "accept", !.ok = FALSE, !.code = code,
                                    !.handle = lst.handle,
                                    !.calls = Append(calls, "CloseHandle")]
          /\ UNCHANGED <<nInst, streams, nStreams, raw, written>>

\* connect_pipe issues ConnectNamedPipe on the swapped-out instance: it
\* returns at once unless the instance is still listening
AcceptWaitIssue ==
  /\ lst.pc = "swapped"
  /\ LET code == ConnectNamedPipe(inst, lst.handle.inst, FALSE)
     IN IF code = "PENDING"
        THEN /\ lst' = [lst EXCEPT !.pc = "waiting"]
             /\ last' = [NoLast EXCEPT !.op = "accept_wait", !.handle = lst.handle]
             /\ UNCHANGED <<inst, nInst, streams, nStreams, raw, written>>
        ELSE AcceptReturn(code)

\* the pending ConnectNamedPipe completes once a client has attached
AcceptWaitDone ==
  /\ lst.pc = "waiting"
  /\ LET code == ConnectNamedPipe(inst, lst.handle.inst, TRUE)
     IN /\ code # "PENDING"
        /\ AcceptReturn(code)

\* ---- PipeStream ----
\* PipeStream::connect(path): create_pipe (WaitNamedPipeW, CreateFileW), then
\* the client-side stream
Connect(p) ==
  LET name == CStr(encode_wide_nul(p))
      code == CreateFileWCode(inst, name)
      calls == <<"WaitNamedPipeW", "CreateFileW">>
  IN /\ IF code # "OK"
        THEN /\ last' = [NoLast EXCEPT !.op = "connect", !.path = p, !.ok = FALSE,
                                       !.code = code, !.calls = calls]
             /\ UNCHANGED <<inst, streams, nStreams>>
        ELSE /\ nStreams < MaxStreams
             /\ \E i \in FirstListening(inst, name) :
                  /\ inst' = CreateFileW(inst, i)
                  /\ nStreams' = nStreams + 1
                  /\ streams' = [streams EXCEPT ![nStreams + 1] =
                                   [NoStream EXCEPT !.status = "live",
                                                    !.handle = H(i, "cli"),
                                                    !.server_half = FALSE,
                                                    !.origin = "connect"]]
                  /\ last' = [NoLast EXCEPT !.op = "connect", !.path = p,
                                            !.stream = nStreams + 1,
                                            !.handle = H(i, "cli"), !.calls = calls]
     /\ UNCHANGED <<nInst, lst, raw, written>>

\* faulty variant of PipeStreamDrop: the server side is never disconnected
PipeStreamDropNoDisconnect(server_half) == <<"FlushFileBuffers">>

\* Drop for PipeStream: flush always, disconnect when server_half
PipeStreamDrop(server_half) ==
  <<"FlushFileBuffers">> \o (IF server_half THEN <<"DisconnectNamedPipe">> ELSE <<>>)

\* dropping a PipeStream value: its Drop impl, then its `handle` field's Drop
StreamTeardown(st) == PipeStreamDrop(st.server_half) \o <<"CloseHandle">>

\* into_raw_handle(self): copies self.handle.inner out; `self` is still owned
\* by the function and is dropped when it returns
IntoRawTeardown(st) == StreamTeardown(st)

\* the platform's state after the calls cs on handle h, in order
RECURSIVE ApplyCalls(_, _, _)
ApplyCalls(I, h, cs) ==
  IF cs = <<>> THEN I
  ELSE LET c == Head(cs)
           J == IF c = "CloseHandle" THEN CloseHandle(I, h)
                ELSE IF c = "DisconnectNamedPipe" THEN DisconnectNamedPipe(I, h)
                ELSE I
       IN ApplyCalls(J, h, Tail(cs))

\* a PipeStream goes out of scope
Drop(s) ==
  /\ streams[s].status = "live"
  /\ FlushReturns(inst, streams[s].handle)
  /\ LET calls == StreamTeardown(streams[s])
     IN /\ inst' = ApplyCalls(inst, streams[s].handle, calls)
        /\ last' = [NoLast EXCEPT !.op = "drop", !.stream = s,
                                  !.handle = streams[s].handle, !.calls = calls]
  /\ streams' = [streams EXCEPT ![s].status = "gone"]
  /\ UNCHANGED <<nInst, lst, nStreams, raw, written>>

\* IntoRawHandle for PipeStream
IntoRawHandle(s) ==
  /\ streams[s].status = "live"
  /\ LET calls == IntoRawTeardown(streams[s])
     IN /\ ("FlushFileBuffers" \in {calls[k] : k \in 1..Len(calls)}
              => FlushReturns(inst, streams[s].handle))
        /\ inst' = ApplyCalls(inst, streams[s].handle, calls)
        /\ last' = [NoLast EXCEPT !.op = "into_raw_handle", !.stream = s,
                                  !.handle = streams[s].handle, !.calls = calls]
  /\ raw' = raw \cup {streams[s].handle}
  /\ streams' = [streams EXCEPT ![s].status = "gone"]
  /\ UNCHANGED <<nInst, lst, nStreams, written>>

\* AsRawHandle for PipeStream: the handle value, the stream keeps owning it
AsRawHandle(s) ==
  /\ streams[s].status = "live"
  /\ raw' = raw \cup {streams[s].handle}
  /\ last' = [NoLast EXCEPT !.op = "as_raw_handle", !.stream = s,
                            !.handle = streams[s].handle]
  /\ UNCHANGED <<inst, nInst, lst, streams, nStreams, written>>

\* faulty variant of from_raw_server_half: a server end makes a server half
from_raw_server_half_by_side(h) == h.side = "srv"

\* from_raw_handle: server_half: false, whatever the handle is
from_raw_server_half(h) == FALSE

\* FromRawHandle for PipeStream: a stream around a raw handle value the
\* program holds.  A handle value that has been closed is taken to stay
\* invalid: the platform calls on it fail.
FromRawHandle(h) ==
  /\ h \in raw
  /\ nStreams < MaxStreams
  /\ nStreams' = nStreams + 1
  /\ streams' = [streams EXCEPT ![nStreams + 1] =
                   [NoStream EXCEPT !.status = "live", !.handle = h,
                                    !.server_half = from_raw_server_half(h),
                                    !.origin = "from_raw_handle"]]
  /\ last' = [NoLast EXCEPT !.op = "from_raw_handle", !.stream = nStreams + 1,
                            !.handle = h]
  /\ UNCHANGED <<inst, nInst, lst, raw, written>>

Min(a, b) == IF a < b THEN a ELSE b

\* ReadFile with a buffer of n bytes: whatever is there, up to n; with nothing
\* there it waits for the peer, and fails once there is no peer
ReadFileCode(I, h) ==
  IF ~IsOpen(I, h) THEN "ERROR_INVALID_HANDLE"
  ELSE IF Inbound(I, h) # <<>> THEN "OK"
  ELSE IF PeerUp(I, h) THEN "PENDING"
  ELSE IF I[h.inst].conn = "disconnected" THEN "ERROR_PIPE_NOT_CONNECTED"
  ELSE "ERROR_BROKEN_PIPE"

ReadFile(I, h, k) ==
  IF h.side = "srv" THEN [I EXCEPT ![h.inst].c2s = SubSeq(@, k + 1, Len(@))]
  ELSE [I EXCEPT ![h.inst].s2c = SubSeq(@, k + 1, Len(@))]

\* faulty variant of read_result: 'broken pipe' is end-of-stream too
read_result_broken_eof(code, k) ==
  IF code = "OK" THEN [ok |-> TRUE, n |-> k, code |-> code]
  ELSE IF code \in {"ERROR_PIPE_NOT_CONNECTED", "ERROR_BROKEN_PIPE"}
  THEN [ok |-> TRUE, n |-> 0, code |-> code]
  ELSE [ok |-> FALSE, n |-> 0, code |-> code]

\* Read::read's mapping of the platform's result to io::Result<usize>
read_result(code, k) ==
  IF code = "OK" THEN [ok |-> TRUE, n |-> k, code |-> code]
  ELSE IF code = "ERROR_PIPE_NOT_CONNECTED" THEN [ok |-> TRUE, n |-> 0, code |-> code]
  ELSE [ok |-> FALSE, n |-> 0, code |-> code]

\* Read for PipeStream: read(buf) with buf.len() = n
Read(s, n) ==
  /\ streams[s].status = "live"
  /\ LET h == streams[s].handle
         code == ReadFileCode(inst, h)
         k == IF code = "OK" THEN Min(n, Len(Inbound(inst, h))) ELSE 0
         r == read_result(code, k)
     IN /\ code # "PENDING"
        /\ inst' = IF code = "OK" THEN ReadFile(inst, h, k) ELSE inst
        /\ streams' = [streams EXCEPT ![s].rcvd = @ \o SubSeq(Inbound(inst, h), 1, r.n),
                                      ![s].eof = @ \/ (r.ok /\ r.n = 0)]
        /\ last' = [NoLast EXCEPT !.op = "read", !.stream = s, !.handle = h,
                                  !.ok = r.ok, !.code = r.code, !.n = r.n,
                                  !.calls = <<"ReadFile">>]
  /\ UNCHANGED <<nInst, lst, nStreams, raw, written>>

\* WriteFile: the whole buffer goes to the peer, or the call fails without one
WriteFileCode(I, h) ==
  IF ~IsOpen(I, h) THEN "ERROR_INVALID_HANDLE"
  ELSE IF PeerUp(I, h) THEN "OK"
  ELSE IF I[h.inst].conn = "disconnected" THEN "ERROR_PIPE_NOT_CONNECTED"
  ELSE "ERROR_NO_DATA"

WriteFile(I, h, buf) ==
  IF h.side = "srv" THEN [I EXCEPT ![h.inst].s2c = @ \o buf]
  ELSE [I EXCEPT ![h.inst].c2s = @ \o buf]

\* Write for PipeStream: write(buf)
Write(s, buf) ==
  /\ streams[s].status = "live"
  /\ LET h == streams[s].handle
         code == WriteFileCode(inst, h)
     IN IF code = "OK"
        THEN /\ written' = written + Len(buf)
             /\ inst' = WriteFile(inst, h, buf)
             /\ streams' = [streams EXCEPT ![s].sent = @ \o buf]
             /\ last' = [NoLast EXCEPT !.op = "write", !.stream = s, !.handle = h,
                                       !.n = Len(buf), !.calls = <<"WriteFile">>]
        ELSE /\ last' = [NoLast EXCEPT !.op = "write", !.stream = s, !.handle = h,
                                       !.ok = FALSE, !.code = code,
                                       !.calls = <<"WriteFile">>]
             /\ UNCHANGED <<inst, streams, written>>
  /\ UNCHANGED <<nInst, lst, nStreams, raw>>

\* ---- the operations called in any order, accept called directly ----
Next ==
  \/ \E p \in PathSet : Bind(p) /\ UNCHANGED it
  \/ \E f \in BOOLEAN : AcceptBegin(f) /\ UNCHANGED it
  \/ AcceptWaitIssue /\ UNCHANGED it
  \/ AcceptWaitDone /\ UNCHANGED it
  \/ ListenerDrop /\ UNCHANGED it
  \/ \E p \in PathSet : Connect(p) /\ UNCHANGED it
  \/ \E s \in 1..MaxStreams : Drop(s) /\ UNCHANGED it
  \/ \E s \in 1..MaxStreams : IntoRawHandle(s) /\ UNCHANGED it
  \/ \E s \in 1..MaxStreams, n \in 1..MaxRead : Read(s, n) /\ UNCHANGED it

Spec == Init /\ [][Next]_vars

\* ---- the operations that move data, on one listener bound at the first path ----
BindIO == Bind(<<1>>) /\ UNCHANGED it

\* at most MaxBytes bytes are written in all
WithinBudget(s, buf) ==
  /\ streams[s].status = "live"
  /\ WriteFileCode(inst, streams[s].handle) = "OK" => written + Len(buf) <= MaxBytes

AcceptBeginIO == nInst < MaxInstIO /\ AcceptBegin(FALSE) /\ UNCHANGED it
AcceptWaitIssueIO == nStreams < MaxStreamsIO /\ AcceptWaitIssue /\ UNCHANGED it
AcceptWaitDoneIO == nStreams < MaxStreamsIO /\ AcceptWaitDone /\ UNCHANGED it
ConnectIO == nStreams < MaxStreamsIO /\ Connect(<<1>>) /\ UNCHANGED it
DropIO == \E s \in 1..MaxStreams : Drop(s) /\ UNCHANGED it
ReadIO == \E s \in 1..MaxStreams, n \in 1..MaxRead : Read(s, n) /\ UNCHANGED it
WriteIO ==
  \E s \in 1..MaxStreams, buf \in BufSet :
    WithinBudget(s, buf) /\ Write(s, buf) /\ UNCHANGED it

NextIO ==
  \/ BindIO
  \/ AcceptBeginIO
  \/ AcceptWaitIssueIO
  \/ AcceptWaitDoneIO
  \/ ConnectIO
  \/ DropIO
  \/ ReadIO
  \/ WriteIO

SpecIO == Init /\ [][NextIO]_vars

\* ---- rounds: connects and accepts in sequence, never concurrently, and each
\* accept called once a client has connected ----
ConnectRound == lst.pc = "ready" /\ Connect(<<1>>) /\ UNCHANGED it

AcceptBeginRound ==
  /\ lst.pc = "ready"
  /\ inst[lst.next_pipe.inst].cli # "none"
  /\ AcceptBegin(FALSE)
  /\ UNCHANGED it

AcceptWaitIssueRound == AcceptWaitIssue /\ UNCHANGED it

\* the clients write, the accepted streams read
ReadRound ==
  \E s \in 1..MaxStreams, n \in 1..MaxRead :
    streams[s].server_half /\ Read(s, n) /\ UNCHANGED it
WriteRound ==
  \E s \in 1..MaxStreams, buf \in BufSet :
    /\ ~streams[s].server_half
    /\ WithinBudget(s, buf)
    /\ Write(s, buf)
    /\ UNCHANGED it

NextRounds ==
  \/ BindIO
  \/ ConnectRound
  \/ AcceptBeginRound
  \/ AcceptWaitIssueRound
  \/ DropIO
  \/ ReadRound
  \/ WriteRound

SpecRounds == Init /\ [][NextRounds]_vars

\* ---- test::basic: one request/response exchange between two threads ----
\* the request and the reply are any non-empty messages of up to MaxMsg bytes
Msgs == UNION {[1..n -> Bytes] : n \in 1..MaxMsg}

StreamsOf(origin) == {s \in 1..MaxStreams : streams[s].origin = origin}

\* or_panic!: the test stops at the first operation that returns an error
Running == last.ok

\* main thread: the listener is bound before the server thread is spawned
BasicBind == Running /\ Bind(<<1>>) /\ UNCHANGED it

\* server thread: listener.accept(), once
BasicAcceptBegin == Running /\ ~lst.accepted /\ AcceptBegin(FALSE) /\ UNCHANGED it
BasicAcceptWaitIssue == Running /\ AcceptWaitIssue /\ UNCHANGED it
BasicAcceptWaitDone == Running /\ AcceptWaitDone /\ UNCHANGED it

\* server thread: stream.read(&mut buf), buf long enough for the request
BasicServerRead ==
  \E s \in StreamsOf("accept") :
    Running /\ streams[s].rcvd = <<>> /\ Read(s, MaxMsg) /\ UNCHANGED it

\* server thread: stream.write_all(msg2)
BasicServerWrite ==
  \E s \in StreamsOf("accept"), m \in Msgs :
    Running /\ streams[s].rcvd # <<>> /\ streams[s].sent = <<>> /\ Write(s, m)
    /\ UNCHANGED it

\* server thread: the closure ends, `stream` goes out of scope
BasicServerDrop ==
  \E s \in StreamsOf("accept") :
    Running /\ streams[s].sent # <<>> /\ Drop(s) /\ UNCHANGED it

\* server thread: then the listener the closure had captured
BasicListenerDrop ==
  /\ Running
  /\ \E s \in StreamsOf("accept") : streams[s].status = "gone"
  /\ ListenerDrop
  /\ UNCHANGED it

\* main thread: PipeStream::connect(socket_path)
BasicConnect ==
  Running /\ lst.pc # "none" /\ StreamsOf("connect") = {} /\ Connect(<<1>>)
  /\ UNCHANGED it

\* main thread: stream.write_all(msg1)
BasicClientWrite ==
  \E c \in StreamsOf("connect"), m \in Msgs :
    Running /\ streams[c].sent = <<>> /\ Write(c, m) /\ UNCHANGED it

\* main thread: stream.read_to_end(&mut buf), one read per step until Ok(0)
BasicClientRead ==
  \E c \in StreamsOf("connect"), n \in 1..MaxRead :
    Running /\ streams[c].sent # <<>> /\ ~streams[c].eof /\ Read(c, n)
    /\ UNCHANGED it

\* main thread: the test function returns, `stream` goes out of scope
BasicClientDrop ==
  \E c \in StreamsOf("connect") :
    Running /\ streams[c].eof /\ Drop(c) /\ UNCHANGED it

BasicServer ==
  \/ BasicAcceptBegin
  \/ BasicAcceptWaitIssue
  \/ BasicAcceptWaitDone
  \/ BasicServerRead
  \/ BasicServerWrite
  \/ BasicServerDrop
  \/ BasicListenerDrop

BasicClient ==
  \/ BasicBind
  \/ BasicConnect
  \/ BasicClientWrite
  \/ BasicClientRead
  \/ BasicClientDrop

NextBasic ==
  \/ BasicBind
  \/ BasicAcceptBegin
  \/ BasicAcceptWaitIssue
  \/ BasicAcceptWaitDone
  \/ BasicServerRead
  \/ BasicServerWrite
  \/ BasicServerDrop
  \/ BasicListenerDrop
  \/ BasicConnect
  \/ BasicClientWrite
  \/ BasicClientRead
  \/ BasicClientDrop

\* each thread keeps running while it has a step to take
SpecBasic == Init /\ [][NextBasic]_vars /\ WF_vars(BasicServer) /\ WF_vars(BasicClient)

\* ---- one listener, with streams taken apart into raw handles and rebuilt ----
IncomingConnect == Connect(<<1>>) /\ UNCHANGED it
RawIntoRawHandle == \E s \in 1..MaxStreams : IntoRawHandle(s) /\ UNCHANGED it
RawAsRawHandle == \E s \in 1..MaxStreams : AsRawHandle(s) /\ UNCHANGED it
RawFromRawHandle ==
  \E h \in raw : nStreams < MaxStreamsIO /\ FromRawHandle(h) /\ UNCHANGED it

NextRaw ==
  \/ BindIO
  \/ AcceptBeginIO
  \/ AcceptWaitIssueIO
  \/ AcceptWaitDoneIO
  \/ ConnectIO
  \/ DropIO
  \/ RawIntoRawHandle
  \/ RawAsRawHandle
  \/ RawFromRawHandle
  \/ ReadIO

SpecRaw == Init /\ [][NextRaw]_vars

\* ---- Incoming: the iterator returned by incoming() / into_iter() ----
\* what an accept call that has just returned gave its caller
AcceptResult(l) == [ok |-> l.ok, code |-> l.code, stream |-> l.stream]

\* faulty variant of IncomingItem: a failed accept is filtered out and ends
\* the iteration
IncomingItemFiltered(r) == IF r.ok THEN [some |-> TRUE, result |-> r]
                           ELSE [some |-> FALSE, result |-> AcceptResult(NoLast)]

\* Incoming::next: Some(self.listener.accept())
IncomingItem(r) == [some |-> TRUE, result |-> r]

\* the iterator across one step of the accept call that next() makes; begin is
\* TRUE for the step on which next() is entered
IncomingStep(begin) ==
  LET a == IF begin THEN [it EXCEPT !.advances = @ + 1, !.accepts = @ + 1] ELSE it
  IN it' = IF lst'.pc = "ready"
           THEN [a EXCEPT !.pc = "idle",
                          !.results = Append(@, AcceptResult(last')),
                          !.items = Append(@, IncomingItem(AcceptResult(last')))]
           ELSE [a EXCEPT !.pc = "active"]

IncomingNextBegin(envFail) ==
  /\ it.pc = "idle"
  /\ it.advances < MaxAdvances
  /\ AcceptBegin(envFail)
  /\ IncomingStep(TRUE)

IncomingNextWaitIssue == it.pc = "active" /\ AcceptWaitIssue /\ IncomingStep(FALSE)

IncomingNextWaitDone == it.pc = "active" /\ AcceptWaitDone /\ IncomingStep(FALSE)

\* one listener, accepted from through its iterator only
NextIncoming ==
  \/ BindIO
  \/ \E f \in BOOLEAN : IncomingNextBegin(f)
  \/ IncomingNextWaitIssue
  \/ IncomingNextWaitDone
  \/ IncomingConnect
  \/ DropIO

SpecIncoming == Init /\ [][NextIncoming]_vars

\* ---- test::iter: two clients in sequence, the server iterating take(2) ----
IterRounds == 2

LiveOf(origin) == {s \in StreamsOf(origin) : streams[s].status = "live"}

\* main thread: the listener is bound before the server thread is spawned
IterBind == Running /\ Bind(<<1>>) /\ UNCHANGED it

\* server thread: take(2) calls next() while it has yielded fewer than two
\* items; the stream of the previous iteration is dropped before the call
IterNextBegin ==
  /\ Running
  /\ it.advances < IterRounds
  /\ LiveOf("accept") = {}
  /\ IncomingNextBegin(FALSE)

IterNextWaitIssue == Running /\ IncomingNextWaitIssue
IterNextWaitDone == Running /\ IncomingNextWaitDone

\* server thread: stream.read(&mut buf) with a buffer of one byte
IterServerRead ==
  \E s \in LiveOf("accept") :
    Running /\ streams[s].rcvd = <<>> /\ Read(s, 1) /\ UNCHANGED it

\* server thread: end of the loop body, `stream` goes out of scope
IterServerDrop ==
  \E s \in LiveOf("accept") :
    Running /\ streams[s].rcvd # <<>> /\ Drop(s) /\ UNCHANGED it

\* server thread: take(2) is exhausted, the closure ends and drops the listener
IterListenerDrop ==
  /\ Running
  /\ it.pc = "idle" /\ it.advances = IterRounds
  /\ LiveOf("accept") = {}
  /\ ListenerDrop
  /\ UNCHANGED it

\* main thread: PipeStream::connect(socket_path), twice in sequence
IterConnect ==
  /\ Running
  /\ lst.pc # "none"
  /\ LiveOf("connect") = {}
  /\ Cardinality(StreamsOf("connect")) < IterRounds
  /\ Connect(<<1>>)
  /\ UNCHANGED it

\* main thread: stream.write_all of one byte
IterClientWrite ==
  \E c \in LiveOf("connect"), b \in Bytes :
    Running /\ streams[c].sent = <<>> /\ Write(c, <<b>>) /\ UNCHANGED it

\* main thread: end of the loop body, `stream` goes out of scope
IterClientDrop ==
  \E c \in LiveOf("connect") :
    Running /\ streams[c].sent # <<>> /\ Drop(c) /\ UNCHANGED it

IterServer ==
  \/ IterNextBegin
  \/ IterNextWaitIssue
  \/ IterNextWaitDone
  \/ IterServerRead
  \/ IterServerDrop
  \/ IterListenerDrop

IterClient ==
  \/ IterBind
  \/ IterConnect
  \/ IterClientWrite
  \/ IterClientDrop

NextIter ==
  \/ IterBind
  \/ IterNextBegin
  \/ IterNextWaitIssue
  \/ IterNextWaitDone
  \/ IterServerRead
  \/ IterServerDrop
  \/ IterListenerDrop
  \/ IterConnect
  \/ IterClientWrite
  \/ IterClientDrop

\* each thread keeps running while it has a step to take
SpecIter == Init /\ [][NextIter]_vars /\ WF_vars(IterServer) /\ WF_vars(IterClient)

\* ---- ownership ----
Created(I, h) == h.inst \in 1..MaxInst /\
                 (IF h.side = "srv" THEN I[h.inst].srv # "none" ELSE I[h.inst].cli # "none")

AllHandles == {H(i, side) : i \in 1..MaxInst, side \in {"srv", "cli"}}

\* the values that own handle h: the listener's next_pipe, accept's local
\* `handle`, and the live streams
StreamOwners(h) == {s \in 1..MaxStreams : streams[s].status = "live" /\ streams[s].handle = h}
Owners(h) == Cardinality(StreamOwners(h))
             + (IF lst.next_pipe = h THEN 1 ELSE 0)
             + (IF lst.handle = h THEN 1 ELSE 0)

CallSet(cs) == {cs[k] : k \in 1..Len(cs)}

\* ---- claims ----

\* C1: every handle created by bind, by accept's replacement creation or by
\* connect is closed exactly once when the value owning it is gone: an owned
\* handle has not been closed, an unowned one has been closed once, and no
\* handle is ever closed twice.
ClosedExactlyOnce ==
  \A h \in AllHandles :
    Created(inst, h) =>
      /\ Closes(inst, h) <= 1
      /\ (Owners(h) > 0 => Closes(inst, h) = 0 /\ IsOpen(inst, h))
      /\ (Owners(h) = 0 => Closes(inst, h) = 1)

\* C1 witness: an accept failed at the wait and its swapped-out handle,
\* owned by nothing any more, has been closed once
ClosedExactlyOnceWitness ==
  /\ last.op = "accept" /\ ~last.ok /\ last.code = "ERROR_NO_DATA"
  /\ Owners(last.handle) = 0
  /\ Closes(inst, last.handle) = 1

\* C2: into_raw_handle leaves the returned raw handle alone: the consumed
\* stream performs no flush, no disconnect and no close on it, so it is still
\* open.
IntoRawLeavesOpen ==
  /\ \A h \in raw : IsOpen(inst, h) /\ Closes(inst, h) = 0
                    /\ inst[h.inst].conn # "disconnected"
  /\ (last.op = "into_raw_handle" => last.calls = <<>>)

\* C3: a connect(P) after bind(P) returned and before any accept call, with no
\* client attached yet, succeeds with a client-side stream on the instance
\* created at bind time (so a connect that fails there found a client already
\* attached).
ConnectAfterBind ==
  (/\ last.op = "connect"
   /\ lst.pc = "ready" /\ ~lst.accepted
   /\ Append(last.path, 0) = lst.path)
  => IF last.ok
     THEN /\ streams[last.stream].status = "live"
          /\ streams[last.stream].handle = H(lst.first.inst, "cli")
          /\ ~streams[last.stream].server_half
          /\ inst[lst.first.inst].conn = "connected"
     ELSE inst[lst.first.inst].cli # "none"

\* C3 witness: the first connect after bind has succeeded, no accept called
ConnectAfterBindWitness ==
  /\ last.op = "connect" /\ last.ok
  /\ lst.pc = "ready" /\ ~lst.accepted
  /\ streams[last.stream].handle = H(lst.first.inst, "cli")

\* C4 as stated: whenever the listener exists and no accept is in progress,
\* next_pipe is an open instance not connected to any client.
NextPipeNeverConnected ==
  lst.pc = "ready" =>
    /\ IsOpen(inst, lst.next_pipe)
    /\ inst[lst.next_pipe.inst].conn = "listening"
    /\ inst[lst.next_pipe.inst].cli = "none"

\* C4 amended: whenever the listener exists, next_pipe is an open server
\* handle that no stream owns and that has never been disconnected; it is
\* connected only if a client connect has attached to it, and a connect to
\* the listener's path fails only with pipe-busy, when next_pipe already has
\* a client.
NextPipeLive ==
  /\ lst.pc \in {"ready", "swapped", "waiting"} =>
       LET i == lst.next_pipe.inst
       IN /\ lst.next_pipe.side = "srv"
          /\ IsOpen(inst, lst.next_pipe)
          /\ \A s \in 1..MaxStreams : streams[s].status # "none"
                                       => streams[s].handle # lst.next_pipe
          /\ lst.handle # lst.next_pipe
          /\ inst[i].conn \in {"listening", "connected"}
          /\ (inst[i].conn = "connected" <=> inst[i].cli # "none")
          /\ (inst[i].cli # "none" =>
                \E s \in 1..MaxStreams : /\ streams[s].status # "none"
                                         /\ streams[s].handle = H(i, "cli")
                                         /\ ~streams[s].server_half)
  /\ (last.op = "connect" /\ ~last.ok /\ lst.pc = "ready"
        /\ Append(last.path, 0) = lst.path)
       => /\ last.code = "ERROR_PIPE_BUSY"
          /\ inst[lst.next_pipe.inst].cli # "none"

\* C4 witness: after an accept returned, the replacement next_pipe already
\* has a client attached and a further connect was turned away
NextPipeLiveWitness ==
  /\ lst.pc = "ready" /\ lst.accepted /\ lst.next_pipe # lst.first
  /\ inst[lst.next_pipe.inst].cli = "open"
  /\ last.op = "connect" /\ ~last.ok /\ last.code = "ERROR_PIPE_BUSY"

\* C7: when the wait fails with 'pipe already connected', accept returns Ok
\* with a server-side stream on the waited instance, still connected to the
\* client; one wait was issued and nothing was closed.
AcceptRaceIsSuccess ==
  (last.op = "accept" /\ last.code = "ERROR_PIPE_CONNECTED")
  => /\ last.ok
     /\ streams[last.stream].status = "live"
     /\ streams[last.stream].server_half
     /\ streams[last.stream].handle = last.handle
     /\ IsOpen(inst, last.handle)
     /\ inst[last.handle.inst].conn = "connected"
     /\ inst[last.handle.inst].cli = "open"
     /\ last.calls = <<"CreateNamedPipeW", "ConnectNamedPipe">>

\* C7 witness: an accept returned through the already-connected race
AcceptRaceIsSuccessWitness ==
  /\ last.op = "accept" /\ last.code = "ERROR_PIPE_CONNECTED" /\ last.ok
  /\ streams[last.stream].server_half

\* C8: when the wait fails with another code, accept returns that error, no
\* stream is produced, the waited handle is released, and the listener is
\* Ready with next_pipe the open replacement instance this accept created; an
\* accept in progress waits on the instance that was next_pipe before it.
AcceptWaitFailure ==
  /\ (last.op = "accept" /\ ~last.ok /\ "ConnectNamedPipe" \in CallSet(last.calls))
     => /\ last.code \notin {"OK", "ERROR_PIPE_CONNECTED"}
        /\ last.code = ConnectNamedPipe(inst, last.handle.inst, FALSE)
        /\ last.stream = 0
        /\ \A s \in 1..MaxStreams : streams[s].status # "none"
                                     => streams[s].handle # last.handle
        /\ lst.pc = "ready"
        /\ lst.next_pipe = H(nInst, "srv")
        /\ lst.next_pipe # last.handle
        /\ IsOpen(inst, lst.next_pipe)
        /\ inst[lst.next_pipe.inst].conn # "disconnected"
  /\ lst.pc \in {"swapped", "waiting"}
     => /\ lst.handle = H(nInst - 1, "srv")
        /\ lst.next_pipe = H(nInst, "srv")

\* C8 witness: a second accept is waiting on the replacement instance that a
\* failed accept left as next_pipe
AcceptWaitFailureWitness ==
  /\ lst.pc = "waiting" /\ lst.handle.inst = 2
  /\ inst[1].srv = "closed" /\ inst[1].srvCloses = 1
  /\ \A s \in 1..MaxStreams : streams[s].status # "none" => ~streams[s].server_half

\* C9: bind and connect both reject a path with an embedded NUL with an
\* invalid-input error before any platform call is made.
PathChecked ==
  (last.op \in {"bind", "connect"} /\ HasNul(last.path))
  => /\ ~last.ok
     /\ last.code = "InvalidInput"
     /\ last.calls = <<>>

\* ---- streams and their peers ----
IsPrefix(a, b) == Len(a) <= Len(b) /\ a = SubSeq(b, 1, Len(a))

Other(side) == IF side = "srv" THEN "cli" ELSE "srv"

\* the streams constructed on the other end of stream s's instance
Peers(s) == {p \in 1..MaxStreams : /\ streams[p].status # "none"
                                   /\ streams[p].handle.inst = streams[s].handle.inst
                                   /\ streams[p].handle.side = Other(streams[s].handle.side)}

ServerStreams == {s \in 1..MaxStreams : streams[s].status # "none" /\ streams[s].server_half}

\* C5 as stated, for the connects: every connect to the listener's path issued
\* before any accept call succeeds (N connects, then N accepts).
ConnectsBeforeAcceptsSucceed ==
  (last.op = "connect" /\ lst.pc = "ready" /\ ~lst.accepted
     /\ Append(last.path, 0) = lst.path)
  => last.ok

\* C5 amended: over rounds of one connect followed by one accept, every accept
\* whose client is still attached succeeds (an accept fails only when its
\* client has already closed), the client and server streams are paired
\* one-to-one by instance, and each stream has read only a prefix of what its
\* own peer wrote.
RoundsPairedNoCrossTalk ==
  /\ \A s, t \in 1..MaxStreams :
       (s # t /\ streams[s].status # "none" /\ streams[t].status # "none")
         => streams[s].handle # streams[t].handle
  /\ \A s \in ServerStreams :
       /\ Cardinality(Peers(s)) = 1
       /\ \A c \in Peers(s) : /\ ~streams[c].server_half
                              /\ IsPrefix(streams[s].rcvd, streams[c].sent)
                              /\ IsPrefix(streams[c].rcvd, streams[s].sent)
  /\ (last.op = "accept" /\ ~last.ok)
       => /\ last.code = "ERROR_NO_DATA"
          /\ inst[last.handle.inst].cli = "closed"
  /\ (last.op = "accept" /\ last.ok)
       => /\ streams[last.stream].handle = last.handle
          /\ inst[last.handle.inst].cli # "none"
  /\ nStreams = Cardinality({s \in 1..MaxStreams : streams[s].status # "none"})

\* C5 witness: two rounds have produced two server streams, each of which
\* has read the byte its own client wrote, the two bytes being different
RoundsPairedNoCrossTalkWitness ==
  \E s, t \in ServerStreams :
    /\ s # t
    /\ Len(streams[s].rcvd) = 1 /\ Len(streams[t].rcvd) = 1
    /\ streams[s].rcvd # streams[t].rcvd

\* C6: after the peer's stream has been dropped, a read that returns no bytes
\* returns Ok(0), not an error, whichever side the dropped peer was.
EofAfterPeerDrop ==
  (/\ last.op = "read" /\ last.n = 0
   /\ \E p \in Peers(last.stream) : streams[p].status = "gone")
  => last.ok

\* C10: the server's reads return a prefix of what the client wrote, in order,
\* and once the client stream is dropped the reading ends with a zero-length
\* Ok read, at which point the server has read exactly what the client wrote.
RoundTrip ==
  \A s \in ServerStreams : \A c \in Peers(s) :
    /\ IsPrefix(streams[s].rcvd, streams[c].sent)
    /\ (last.op = "read" /\ last.stream = s /\ last.n = 0 /\ streams[c].status = "gone")
         => /\ last.ok
            /\ streams[s].rcvd = streams[c].sent

\* C11: in the exchange of test::basic, under fair scheduling of the two
\* threads, no operation ever returns an error, what either side has read is
\* always a prefix of what the other wrote, and both threads eventually finish:
\* the server has read exactly the request, the client has read exactly the
\* reply and then end-of-stream, and every stream and the listener are dropped.
BasicNoError ==
  /\ last.ok
  /\ \A s \in 1..MaxStreams : \A p \in Peers(s) :
       IsPrefix(streams[s].rcvd, streams[p].sent)

BasicFinished ==
  /\ lst.pc = "dropped"
  /\ \E s \in StreamsOf("accept") : \E c \in StreamsOf("connect") :
       /\ streams[s].status = "gone" /\ streams[c].status = "gone"
       /\ streams[c].sent # <<>> /\ streams[s].rcvd = streams[c].sent
       /\ streams[s].sent # <<>> /\ streams[c].rcvd = streams[s].sent
       /\ streams[c].eof

BasicExchangeTerminates == []BasicNoError /\ <>[]BasicFinished

\* C11 witness: the exchange is over, the client having needed two reads to
\* take the reply before it read end-of-stream
BasicExchangeTerminatesWitness ==
  /\ BasicFinished
  /\ \E c \in StreamsOf("connect") : Len(streams[c].rcvd) = 2 /\ Len(streams[c].sent) = 2
  /\ last.op = "drop"

\* C12: in test::iter, under fair scheduling of the two threads, no connect,
\* accept, read or write ever returns an error, an accepted stream never holds
\* anything but the byte its own client wrote, and the run ends with two
\* accepted streams that have each read exactly the one byte of their client.
IterNoError ==
  /\ last.ok
  /\ \A k \in 1..Len(it.items) : it.items[k].some /\ it.items[k].result.ok
  /\ \A s \in StreamsOf("accept") : \A c \in Peers(s) :
       /\ IsPrefix(streams[s].rcvd, streams[c].sent)
       /\ Cardinality(Peers(s)) = 1

IterFinished ==
  /\ lst.pc = "dropped"
  /\ Cardinality(StreamsOf("accept")) = IterRounds
  /\ Cardinality(StreamsOf("connect")) = IterRounds
  /\ \A s \in StreamsOf("accept") : \A c \in Peers(s) :
       /\ streams[s].status = "gone" /\ streams[c].status = "gone"
       /\ Len(streams[s].rcvd) = 1
       /\ streams[s].rcvd = streams[c].sent

IterBothRoundsSucceed == []IterNoError /\ <>[]IterFinished

\* C12 witness: the run is over and the two accepted streams have read
\* different bytes, each the one its own client wrote
IterBothRoundsSucceedWitness ==
  /\ IterFinished
  /\ \E s, t \in StreamsOf("accept") : streams[s].rcvd # streams[t].rcvd

\* C13: every next() call on an Incoming has made exactly one accept call, and
\* every call that has returned yielded Some(result) with the result of its
\* accept call unchanged, failed or not; next() never yields None, and after a
\* failed item the next call makes a new accept call.
IncomingYieldsEveryAccept ==
  /\ it.accepts = it.advances
  /\ Len(it.items) = Len(it.results)
  /\ it.advances = Len(it.items) + (IF it.pc = "active" THEN 1 ELSE 0)
  /\ \A k \in 1..Len(it.items) :
       /\ it.items[k].some
       /\ it.items[k].result = it.results[k]
  /\ (it.pc = "idle" /\ it.advances > 0 /\ last.op = "accept")
       => it.items[Len(it.items)].result = AcceptResult(last)

\* C13 witness: the iterator has yielded a failed accept and, on the next
\* call, the stream of a new accept
IncomingYieldsEveryAcceptWitness ==
  \E k \in 1..Len(it.items) :
    /\ k > 1
    /\ ~it.items[k - 1].result.ok
    /\ it.items[k].result.ok
    /\ it.items[k].result.stream > 0
    /\ streams[it.items[k].result.stream].server_half

\* C14: dropping accepted streams leaves the listener able to accept.  Right
\* after an accepted stream is dropped, next_pipe is an open instance other
\* than the dropped one, never disconnected and never closed, and a client
\* connect attaches unless a client is attached to it already; and an accept
\* that succeeds after accepted streams were dropped returns a live
\* server-side stream on an open, connected instance of its own.
GoneAccepted == {s \in StreamsOf("accept") : streams[s].status = "gone"}

ListenerSurvivesDrops ==
  /\ (/\ last.op = "drop"
      /\ streams[last.stream].origin = "accept"
      /\ lst.pc \in {"ready", "swapped", "waiting"})
       => /\ lst.next_pipe # last.handle
          /\ IsOpen(inst, lst.next_pipe)
          /\ Closes(inst, lst.next_pipe) = 0
          /\ inst[lst.next_pipe.inst].conn # "disconnected"
          /\ inst[lst.next_pipe.inst].cli = "none"
               => /\ lst.next_pipe.inst \in Listening(inst, CStr(lst.path))
                  /\ CreateFileWCode(inst, CStr(lst.path)) = "OK"
  /\ (last.op = "accept" /\ last.ok /\ GoneAccepted # {})
       => /\ streams[last.stream].status = "live"
          /\ streams[last.stream].server_half
          /\ IsOpen(inst, last.handle)
          /\ inst[last.handle.inst].conn = "connected"
          /\ \A g \in GoneAccepted : streams[g].handle # last.handle
          /\ lst.next_pipe # last.handle /\ IsOpen(inst, lst.next_pipe)

\* C14 witness: an accepted stream was dropped, then a client connected and a
\* further accept returned a stream whose client is attached and open
ListenerSurvivesDropsWitness ==
  /\ last.op = "accept" /\ last.ok
  /\ GoneAccepted # {}
  /\ PeerUp(inst, last.handle)
  /\ \A s \in StreamsOf("accept") : s # last.stream => streams[s].status = "gone"

\* C15: in every accept call the replacement instance is created and installed
\* as next_pipe before ConnectNamedPipe is issued on the swapped-out instance:
\* from the swap until the call returns, and when the wait is issued or has
\* returned, next_pipe is an open instance created after the waited one and is
\* never the waited one, and CreateNamedPipeW precedes ConnectNamedPipe in the
\* calls of the accept.
ReplacementBeforeWait ==
  /\ lst.pc \in {"swapped", "waiting"}
       => /\ lst.next_pipe # lst.handle
          /\ lst.next_pipe.inst > lst.handle.inst
          /\ IsOpen(inst, lst.next_pipe)
          /\ lst.calls = <<"CreateNamedPipeW">>
  /\ last.op = "accept_wait"
       => /\ lst.pc = "waiting"
          /\ last.handle = lst.handle
          /\ lst.next_pipe # last.handle
          /\ lst.next_pipe.inst > last.handle.inst
  /\ (last.op = "accept" /\ "ConnectNamedPipe" \in CallSet(last.calls))
       => /\ SubSeq(last.calls, 1, 2) = <<"CreateNamedPipeW", "ConnectNamedPipe">>
          /\ lst.next_pipe # last.handle
          /\ lst.next_pipe.inst > last.handle.inst
          /\ IsOpen(inst, lst.next_pipe)

\* C15 witness: a later accept is blocked in its wait on an instance that an
\* earlier accept installed, with the newest instance installed as next_pipe
ReplacementBeforeWaitWitness ==
  /\ lst.pc = "waiting"
  /\ lst.handle # lst.first
  /\ inst[lst.handle.inst].cli = "none"
  /\ lst.next_pipe.inst = nInst
  /\ nInst = MaxInst

\* C16: dropping a PipeStream makes, in this order, FlushFileBuffers, then
\* DisconnectNamedPipe exactly when the stream is a server half, then
\* CloseHandle; the close happens on every drop, whether or not the flush or
\* the disconnect had a connected peer to succeed on, and leaves the handle
\* closed once; a client-side stream never issues DisconnectNamedPipe.
DropOrder ==
  last.op = "drop"
    => /\ last.calls = (IF streams[last.stream].server_half
                        THEN <<"FlushFileBuffers", "DisconnectNamedPipe", "CloseHandle">>
                        ELSE <<"FlushFileBuffers", "CloseHandle">>)
       /\ streams[last.stream].status = "gone"
       /\ ~IsOpen(inst, last.handle)
       /\ Closes(inst, last.handle) = 1
       /\ streams[last.stream].server_half
            => inst[last.handle.inst].conn = "disconnected"

\* C16 witness: a server-side stream is dropped after its client has gone, so
\* the flush has no peer to succeed on, and the disconnect and close still run
DropOrderWitness ==
  /\ last.op = "drop"
  /\ streams[last.stream].server_half
  /\ inst[last.handle.inst].cli = "closed"
  /\ inst[last.handle.inst].conn = "disconnected"
  /\ ~IsOpen(inst, last.handle)

\* C17: a read returns Ok(0) exactly when the platform failed it with 'pipe
\* not connected', which is when the instance has been disconnected; with any
\* other failure code it returns an error carrying that code, 'broken pipe'
\* (the peer closed without a disconnect) included; and a read the platform
\* completed returns Ok(n) with the number of bytes it delivered.
ReadMapping ==
  last.op = "read"
    => /\ (last.ok /\ last.n = 0) <=> last.code = "ERROR_PIPE_NOT_CONNECTED"
       /\ last.code = "ERROR_PIPE_NOT_CONNECTED"
            <=> inst[last.handle.inst].conn = "disconnected"
       /\ ~last.ok <=> last.code \notin {"OK", "ERROR_PIPE_NOT_CONNECTED"}
       /\ ~last.ok => /\ last.code = "ERROR_BROKEN_PIPE"
                      /\ inst[last.handle.inst].conn = "connected"
                      /\ ~PeerUp(inst, last.handle)
       /\ last.code = "OK" <=> last.n \in 1..MaxRead
       /\ last.n <= Len(streams[last.stream].rcvd)

\* C17 witness: a stream that has read data gets 'broken pipe' as an error
\* from its next read, its peer having closed without a disconnect
ReadMappingWitness ==
  /\ last.op = "read"
  /\ ~last.ok /\ last.code = "ERROR_BROKEN_PIPE"
  /\ streams[last.stream].rcvd # <<>>

\* C18: a PipeStream is a server half exactly when a successful accept built
\* it: the streams built by connect and by from_raw_handle are not, whatever
\* handle they hold, and no operation changes the flag of an existing stream.
ServerHalfIffAccepted ==
  /\ \A s \in 1..MaxStreams :
       streams[s].status # "none"
         => /\ streams[s].origin \in {"accept", "connect", "from_raw_handle"}
            /\ streams[s].server_half <=> streams[s].origin = "accept"
  /\ (last.op = "accept" /\ last.ok) => streams[last.stream].origin = "accept"
  /\ (last.op = "connect" /\ last.ok) => streams[last.stream].origin = "connect"
  /\ last.op = "from_raw_handle" => streams[last.stream].origin = "from_raw_handle"

\* C18 witness: from_raw_handle has wrapped the handle of a live accepted
\* stream, and the new stream is not a server half while the accepted one is
ServerHalfIffAcceptedWitness ==
  /\ last.op = "from_raw_handle"
  /\ last.handle.side = "srv"
  /\ ~streams[last.stream].server_half
  /\ \E s \in LiveOf("accept") :
       streams[s].handle = last.handle /\ streams[s].server_half

\* C19: under bind, accept, connect and drop, every open handle has at most one
\* owner among next_pipe, accept's local handle and the live streams: next_pipe
\* is never the handle of a live stream nor of the stream an accept returns,
\* and no two live streams hold the same handle.
LiveStreams == {s \in 1..MaxStreams : streams[s].status = "live"}

SingleOwner ==
  /\ \A h \in AllHandles : (Created(inst, h) /\ IsOpen(inst, h)) => Owners(h) <= 1
  /\ \A s, t \in LiveStreams : s # t => streams[s].handle # streams[t].handle
  /\ \A s \in LiveStreams : /\ streams[s].handle # lst.next_pipe
                            /\ streams[s].handle # lst.handle
  /\ lst.pc \in {"swapped", "waiting"} => lst.handle # lst.next_pipe
  /\ (last.op = "accept" /\ last.ok) => streams[last.stream].handle # lst.next_pipe

\* C19 witness: two accepted streams are live next to the listener, on three
\* different instances
SingleOwnerWitness ==
  /\ lst.pc = "ready"
  /\ Cardinality(LiveOf("accept")) = 2
  /\ \A s \in LiveOf("accept") : streams[s].handle.inst # lst.next_pipe.inst
  /\ IsOpen(inst, lst.next_pipe)

\* C20: an accept whose creation of the replacement instance fails returns the
\* creation's error and leaves the listener as it was: next_pipe is the same
\* instance as before the call, open, never closed nor disconnected and still
\* the newest instance; no ConnectNamedPipe and no CloseHandle was issued; and
\* a client attached to next_pipe is one the next accept's wait reports as
\* connected.
AcceptCreateFailureFrame ==
  (last.op = "accept" /\ ~last.ok /\ last.calls = <<"CreateNamedPipeW">>)
    => /\ last.code = "ERROR_NO_SYSTEM_RESOURCES"
       /\ lst.pc = "ready"
       /\ lst.next_pipe = last.handle
       /\ lst.handle = NoHandle
       /\ lst.next_pipe.inst = nInst
       /\ IsOpen(inst, lst.next_pipe)
       /\ Closes(inst, lst.next_pipe) = 0
       /\ inst[lst.next_pipe.inst].conn # "disconnected"
       /\ last.stream = 0
       /\ inst[lst.next_pipe.inst].cli = "open"
            => connect_pipe_ok(ConnectNamedPipe(inst, lst.next_pipe.inst, FALSE))

\* C20 witness: an accept failed at the creation, and the accept after it has
\* returned a stream on the instance that bind created, its client attached
AcceptCreateFailureFrameWitness ==
  /\ Len(it.results) = 2
  /\ ~it.results[1].ok /\ it.results[1].code = "ERROR_NO_SYSTEM_RESOURCES"
  /\ it.results[2].ok
  /\ streams[it.results[2].stream].handle = lst.first
  /\ PeerUp(inst, lst.first)
====
